---- MODULE Spec2Model ----
(***************************************************************************)
(* A model of the OC-Wasm BIOS (src/src/main.rs): the CBOR header decoder, *)
(* the two call-argument encoders, the boot state machine run_step and the *)
(* run loop, together with the host interfaces they consume (component     *)
(* enumeration, method invocation, result collection, fatal error and the  *)
(* execution hand-off).                                                    *)
(*                                                                         *)
(* Bytes are integers 0..255 and byte slices are sequences of them.  A u64 *)
(* is kept as its eight big-endian bytes and a u32 as its four, so that    *)
(* the full width of a count is kept and a narrowing cast is visible.      *)
(***************************************************************************)
EXTENDS Integers, Sequences, FiniteSets, TLC

(***************************************************************************)
(* Bounds of the model.                                                    *)
(***************************************************************************)
\* The largest number of components attached to the computer.
MaxComps == 3
\* The largest number of data chunks a file yields before the model's host
\* stops offering further data.
MaxChunks == 2
\* The largest number of bytes that follow the first byte of a slice handed to
\* the header decoder on its own.
MaxTail == 9

(***************************************************************************)
(* Fixed-width unsigned integers.                                          *)
(***************************************************************************)
\* The u64 whose value is the small natural number n (n < 2^31).
U64(n) == [i \in 1..8 |-> IF i <= 4 THEN 0 ELSE (n \div (256 ^ (8 - i))) % 256]

\* a <= b for two u64 values.
RECURSIVE BELe(_, _)
BELe(a, b) ==
    IF a = <<>> THEN TRUE
    ELSE IF Head(a) < Head(b) THEN TRUE
    ELSE IF Head(a) > Head(b) THEN FALSE
    ELSE BELe(Tail(a), Tail(b))

\* The value of a u64 known to be small, as a natural number (as usize on a
\* value already checked against a slice length).
U64ToNat(c) == ((c[5] * 256 + c[6]) * 256 + c[7]) * 256 + c[8]

\* AsU32 keeping the high four bytes.
AsU32High(c) == SubSeq(c, 1, 4)

\* `as u32` on a u64 keeps the low four bytes.
AsU32(c) == SubSeq(c, 5, 8)

\* u32::to_be_bytes of the small natural number n.
ToBeBytes32(n) == [i \in 1..4 |-> (n \div (256 ^ (4 - i))) % 256]

(***************************************************************************)
(* CBOR header decoder.                                                    *)
(***************************************************************************)
\* CborMajorType taking the count selector 24 for a float width as well.
CborMajorTypeWideFloat(first_byte) ==
    CASE first_byte \div 32 = 0 -> "UnsignedInteger"
      [] first_byte \div 32 = 1 -> "NegativeInteger"
      [] first_byte \div 32 = 2 -> "Bytes"
      [] first_byte \div 32 = 3 -> "String"
      [] first_byte \div 32 = 4 -> "Array"
      [] first_byte \div 32 = 5 -> "Map"
      [] first_byte \div 32 = 6 -> "Tag"
      [] first_byte \div 32 = 7 ->
            IF first_byte % 32 \in 24..27 THEN "Float" ELSE "Special"

\* The major type selected by the upper three bits of the first byte.
CborMajorType(first_byte) ==
    CASE first_byte \div 32 = 0 -> "UnsignedInteger"
      [] first_byte \div 32 = 1 -> "NegativeInteger"
      [] first_byte \div 32 = 2 -> "Bytes"
      [] first_byte \div 32 = 3 -> "String"
      [] first_byte \div 32 = 4 -> "Array"
      [] first_byte \div 32 = 5 -> "Map"
      [] first_byte \div 32 = 6 -> "Tag"
      [] first_byte \div 32 = 7 ->
            IF first_byte % 32 \in 25..27 THEN "Float" ELSE "Special"

\* CountBytes reading one byte for the count selectors 28 to 31.
CountBytesLenient(count_bits) ==
    CASE count_bits = 24 -> 1
      [] count_bits = 25 -> 2
      [] count_bits = 26 -> 4
      [] count_bits = 27 -> 8
      [] OTHER -> 1

\* The number of bytes holding the count, 0 for an invalid count selector.
CountBytes(count_bits) ==
    CASE count_bits = 24 -> 1
      [] count_bits = 25 -> 2
      [] count_bits = 26 -> 4
      [] count_bits = 27 -> 8
      [] OTHER -> 0

\* CountValue without the shift: every byte lands on the lowest byte.
RECURSIVE CountValueNoShift(_, _)
CountValueNoShift(count_value, count_bytes) ==
    IF count_bytes = <<>> THEN count_value
    ELSE CountValueNoShift(SubSeq(count_value, 1, 7) \o <<Head(count_bytes)>>,
                           Tail(count_bytes))

\* count_value = (count_value << 8) | byte, over the count bytes, in a u64.
RECURSIVE CountValue(_, _)
CountValue(count_value, count_bytes) ==
    IF count_bytes = <<>> THEN count_value
    ELSE CountValue(Tail(count_value) \o <<Head(count_bytes)>>, Tail(count_bytes))

DecodeErr(e) == [ok |-> FALSE, err |-> e]
DecodeOk(m, c, r) == [ok |-> TRUE, major |-> m, count |-> c, rest |-> r]

cbor_decode_header(slice) ==
    IF slice = <<>> THEN DecodeErr("BufferTooShort")
    ELSE
      LET first_byte == Head(slice)
          rest       == Tail(slice)
          major_type == CborMajorType(first_byte)
          count_bits == first_byte % 32
      IN  IF count_bits <= 23 THEN DecodeOk(major_type, U64(count_bits), rest)
          ELSE IF CountBytes(count_bits) = 0 THEN DecodeErr("CborDecode")
          ELSE IF Len(rest) < CountBytes(count_bits) THEN DecodeErr("CborDecode")
          ELSE DecodeOk(major_type,
                        CountValue(U64(0), SubSeq(rest, 1, CountBytes(count_bits))),
                        SubSeq(rest, CountBytes(count_bits) + 1, Len(rest)))

(***************************************************************************)
(* Constants of the program.                                               *)
(***************************************************************************)
\* b"/init.wasm"
FILENAME == <<47, 105, 110, 105, 116, 46, 119, 97, 115, 109>>
CHUNK_SIZE == 16384
BOOTABLE_COMPONENT_TYPE == "filesystem"
\* The one error code of invoke_end that OpeningFile recovers from.
OtherError == -12

(***************************************************************************)
(* The state of the program and of the host it runs in.                    *)
(***************************************************************************)
VARIABLES
    State,        \* static mut STATE of run
    LISTER,       \* static mut LISTER of run_step: "None" or "Some"
    pc,           \* where control is: "host" (run has not been entered or has
                  \* returned), "run" (inside the loop of run), "error"
                  \* (computer::error was called), "executed" (execute::execute)
    message,      \* the diagnostic handed to computer::error, "" before
    comps,        \* the components attached to the computer, in listing order
    outstanding,  \* the method calls invoked and not yet collected, oldest first
    image,        \* the execution buffer filled by execute::add
    descriptors,  \* the descriptors owned by the program and not yet closed
    fresh,        \* TRUE from the host's entering run to the end of the first
                  \* iteration of its loop
    file,         \* the data chunks the host has returned to read calls
    trace,        \* every invoke_component_method and invoke_end made so far
    step,         \* what the latest iteration of the loop of run did, in the
                  \* current entry into run
    slice,        \* the argument of a call of cbor_decode_header made on its
                  \* own, outside a boot
    header        \* what that call returned, NoHeader before it

vars == <<State, LISTER, pc, message, comps, outstanding, image, descriptors,
          fresh, file, trace, step, slice, header>>

(***************************************************************************)
(* The values of State, UuidSource and RunResult.                          *)
(***************************************************************************)
StateInit == [tag |-> "Init"]
StateReadingBootDeviceUuid == [tag |-> "ReadingBootDeviceUuid"]
StateStartScan == [tag |-> "StartScan"]
StateScanning(listing) == [tag |-> "Scanning", listing |-> listing]
StateOpeningFile(uuid, source) ==
    [tag |-> "OpeningFile", uuid |-> uuid, source |-> source]
StateReadingFile(descriptor, uuid) ==
    [tag |-> "ReadingFile", descriptor |-> descriptor, uuid |-> uuid]

UuidSourceEeprom == [kind |-> "Eeprom"]
UuidSourceScan(listing) == [kind |-> "Scan", listing |-> listing]

\* RunResult with its two values exchanged.
RunResultSwapped(done) == IF done THEN "Return" ELSE "RunNext"

\* `if done { RunNext } else { Return }`
RunResult(done) == IF done THEN "RunNext" ELSE "Return"

(***************************************************************************)
(* The host: components, listings, method calls.                           *)
(***************************************************************************)
\* The 16-byte address of the k-th component slot.
Address(k) == [i \in 1..16 |-> k]

ComponentTypes == {"eeprom", "filesystem", "gpu", "motion_sensor"}

\* component::Lister::start(Some(type)): the addresses of the attached
\* components of that type, in the host's order.
RECURSIVE ListingOf(_, _)
ListingOf(cs, type) ==
    IF cs = <<>> THEN <<>>
    ELSE IF Head(cs).type = type THEN <<Head(cs).address>> \o ListingOf(Tail(cs), type)
    ELSE ListingOf(Tail(cs), type)

\* component::component_type(address, buffer): the type of the component at
\* the address, an error if there is none or the buffer cannot hold the type.
component_type(cs, address, buffer_len) ==
    IF \A i \in 1..Len(cs) : cs[i].address # address
      THEN [ok |-> FALSE, err |-> "NoSuchComponent"]
      ELSE LET c == cs[CHOOSE i \in 1..Len(cs) : cs[i].address = address]
           IN  IF Len(c.type) > buffer_len
                 THEN [ok |-> FALSE, err |-> "BufferTooShort"]
                 ELSE [ok |-> TRUE, type |-> c.type]

\* component_sys::invoke_component_method: negative if the host rejects the
\* call, 1 if the call completed at once, 0 if it completes after run returns.
invoke_component_method(cs, address, sync) ==
    IF \A i \in 1..Len(cs) : cs[i].address # address THEN -1
    ELSE IF sync THEN 1 ELSE 0

InvokeEvent(address, method, args, rc) ==
    [op |-> "invoke", address |-> address, method |-> method, args |-> args, rc |-> rc]
\* component_sys::invoke_end, with the code it returned.
invoke_end(rc) == [op |-> "invoke_end", rc |-> rc]

(***************************************************************************)
(* The outcome of one execution of run_step.                               *)
(***************************************************************************)
\* Ok((result, next)).
StepOk(result, next, events, add, acquired) ==
    [kind |-> "Ok", result |-> result, next |-> next, msg |-> "",
     events |-> events, add |-> add, acquired |-> acquired, dropped |-> {}]
\* Err(_), by the ? operator; the values the arm owns are dropped on return.
StepErr(events, dropped) ==
    [kind |-> "Err", result |-> "none", next |-> StateInit, msg |-> "",
     events |-> events, add |-> <<>>, acquired |-> {}, dropped |-> dropped]
\* computer::error(msg), which does not return.
StepError(msg, events, acquired) ==
    [kind |-> "Error", result |-> "none", next |-> StateInit, msg |-> msg,
     events |-> events, add |-> <<>>, acquired |-> acquired, dropped |-> {}]
\* execute::execute(), which does not return.
StepExecute(events, dropped) ==
    [kind |-> "Execute", result |-> "none", next |-> StateInit, msg |-> "",
     events |-> events, add |-> <<>>, acquired |-> {}, dropped |-> dropped]

internal_error(events, acquired) == StepError("BIOS: internal error", events, acquired)

(***************************************************************************)
(* Call-argument encoders.                                                 *)
(***************************************************************************)
\* OpenArgs with the filename written as a byte string.
OpenArgsBytes == <<4 * 32 + 1, 2 * 32 + 24, Len(FILENAME)>> \o FILENAME

OpenArgs == <<4 * 32 + 1, 3 * 32 + 24, Len(FILENAME)>> \o FILENAME

\* ReadArgs with the header of an array of one element.
ReadArgsOneElement(descriptor) ==
    <<4 * 32 + 1, 6 * 32 + 24, 39, 26>> \o descriptor \o <<26>> \o ToBeBytes32(CHUNK_SIZE)

ReadArgs(descriptor) ==
    <<4 * 32 + 2, 6 * 32 + 24, 39, 26>> \o descriptor \o <<26>> \o ToBeBytes32(CHUNK_SIZE)

\* invoke_open_init followed by the Ok((..)) its callers build from `done`.
invoke_open_init(cs, address, sync, events, next) ==
    LET rc == invoke_component_method(cs, address, sync)
        evs == events \o <<InvokeEvent(address, "open", OpenArgs, rc)>>
    IN  IF rc < 0 THEN internal_error(evs, {})
        ELSE StepOk(RunResult(rc # 0), next, evs, <<>>, {})

\* invoke_read issuing its call a second time when the first did not complete
\* at once.
invoke_read_twice(cs, address, descriptor, sync, events, add, acquired, next) ==
    LET rc == invoke_component_method(cs, address, sync)
        e == InvokeEvent(address, "read", ReadArgs(descriptor), rc)
        evs == events \o (IF rc = 0 THEN <<e, e>> ELSE <<e>>)
    IN  IF rc < 0 THEN [internal_error(evs, acquired) EXCEPT !.add = add]
        ELSE StepOk(RunResult(rc # 0), next, evs, add, acquired)

\* invoke_read calling the first filesystem of the computer, whatever the
\* address it is given.
invoke_read_first_fs(cs, address, descriptor, sync, events, add, acquired, next) ==
    LET first == Head(ListingOf(cs, BOOTABLE_COMPONENT_TYPE))
        rc == invoke_component_method(cs, first, sync)
        evs == events \o <<InvokeEvent(first, "read", ReadArgs(descriptor), rc)>>
    IN  IF rc < 0 THEN [internal_error(evs, acquired) EXCEPT !.add = add]
        ELSE StepOk(RunResult(rc # 0), next, evs, add, acquired)

\* invoke_read followed by the Ok((..)) its callers build from `done`.  `add` is
\* what the caller gave execute::add before the call (line 520): it is in the
\* execution buffer already when internal_error() is reached at line 296.
invoke_read(cs, address, descriptor, sync, events, add, acquired, next) ==
    LET rc == invoke_component_method(cs, address, sync)
        evs == events \o <<InvokeEvent(address, "read", ReadArgs(descriptor), rc)>>
    IN  IF rc < 0 THEN [internal_error(evs, acquired) EXCEPT !.add = add]
        ELSE StepOk(RunResult(rc # 0), next, evs, add, acquired)

(***************************************************************************)
(* The test `major == CborMajorType::Array && count == 1` that every arm    *)
(* collecting a result applies to the first header.                        *)
(***************************************************************************)
\* IsArrayOfOne without the test of the count.
IsArray(h) == h.major = "Array"

IsArrayOfOne(h) == h.major = "Array" /\ h.count = U64(1)

\* ChunkOf taking everything that follows the header.
ChunkWhole(rest, count) == rest

\* rest.get_unchecked(0..count as usize): the data of a chunk.
ChunkOf(rest, count) == SubSeq(rest, 1, U64ToNat(count))

(***************************************************************************)
(* run_step, one operator per arm of its match.  `res` is what invoke_end  *)
(* returns (rc and, for rc >= 0, the rc bytes written to the buffer) and   *)
(* `sync` is whether the host completes a call issued in the step at once. *)
(***************************************************************************)
\* run_step_Init calling the last EEPROM of the listing instead of the first.
run_step_Init_last(cs, sync) ==
    LET listing == ListingOf(cs, "eeprom")
    IN  IF listing = <<>> THEN StepError("BIOS: no EEPROM", <<>>, {})
        ELSE LET eeprom_uuid == listing[Len(listing)]
                 rc == invoke_component_method(cs, eeprom_uuid, sync)
                 evs == <<InvokeEvent(eeprom_uuid, "getData", <<>>, rc)>>
             IN  IF rc < 0 THEN internal_error(evs, {})
                 ELSE StepOk(IF rc = 0 THEN "Return" ELSE "RunNext",
                             StateReadingBootDeviceUuid, evs, <<>>, {})

run_step_Init(cs, sync) ==
    LET listing == ListingOf(cs, "eeprom")
    IN  IF listing = <<>> THEN StepError("BIOS: no EEPROM", <<>>, {})
        ELSE LET eeprom_uuid == Head(listing)
                 rc == invoke_component_method(cs, eeprom_uuid, sync)
                 evs == <<InvokeEvent(eeprom_uuid, "getData", <<>>, rc)>>
             IN  IF rc < 0 THEN internal_error(evs, {})
                 ELSE StepOk(IF rc = 0 THEN "Return" ELSE "RunNext",
                             StateReadingBootDeviceUuid, evs, <<>>, {})

\* BootDeviceOrScan with a type buffer one byte too short.
BootDeviceOrScanShortBuffer(cs, rest, sync, evs) ==
    IF Len(rest) = 16
      THEN LET candidate_type == component_type(cs, rest, Len(BOOTABLE_COMPONENT_TYPE) - 1)
           IN  IF candidate_type.ok /\ candidate_type.type = BOOTABLE_COMPONENT_TYPE
                 THEN invoke_open_init(cs, rest, sync, evs,
                                       StateOpeningFile(rest, UuidSourceEeprom))
                 ELSE StepOk("RunNext", StateStartScan, evs, <<>>, {})
      ELSE StepOk("RunNext", StateStartScan, evs, <<>>, {})

\* BootDeviceOrScan opening the boot device without asking for its type.
BootDeviceNoTypeCheck(cs, rest, sync, evs) ==
    IF Len(rest) = 16
      THEN invoke_open_init(cs, rest, sync, evs, StateOpeningFile(rest, UuidSourceEeprom))
      ELSE StepOk("RunNext", StateStartScan, evs, <<>>, {})

\* Lines 374-406: what follows the shape checks on the EEPROM data.
BootDeviceOrScan(cs, rest, sync, evs) ==
    IF Len(rest) = 16
      THEN LET candidate_type == component_type(cs, rest, Len(BOOTABLE_COMPONENT_TYPE))
           IN  IF candidate_type.ok /\ candidate_type.type = BOOTABLE_COMPONENT_TYPE
                 THEN invoke_open_init(cs, rest, sync, evs,
                                       StateOpeningFile(rest, UuidSourceEeprom))
                 ELSE StepOk("RunNext", StateStartScan, evs, <<>>, {})
      ELSE StepOk("RunNext", StateStartScan, evs, <<>>, {})

run_step_ReadingBootDeviceUuid(cs, res, sync) ==
    LET evs == <<invoke_end(res.rc)>>
    IN  IF res.rc < 0 THEN internal_error(evs, {})
        ELSE LET h1 == cbor_decode_header(res.bytes)
             IN  IF ~h1.ok THEN StepErr(evs, {})
                 ELSE IF ~IsArrayOfOne(h1)
                   THEN StepError("BIOS: eeprom.getData bad", evs, {})
                 ELSE LET h2 == cbor_decode_header(h1.rest)
                      IN  IF ~h2.ok THEN StepErr(evs, {})
                          ELSE IF h2.major # "Bytes"
                            THEN StepError("BIOS: eeprom.getData bad", evs, {})
                          ELSE IF U64(Len(h2.rest)) # h2.count
                            THEN StepError("BIOS: eeprom.getData bad", evs, {})
                          ELSE BootDeviceOrScan(cs, h2.rest, sync, evs)

\* run_step_StartScan reporting Return.
run_step_StartScan_return(cs) ==
    StepOk("Return", StateScanning(ListingOf(cs, BOOTABLE_COMPONENT_TYPE)), <<>>, <<>>, {})

run_step_StartScan(cs) ==
    StepOk("RunNext", StateScanning(ListingOf(cs, BOOTABLE_COMPONENT_TYPE)), <<>>, <<>>, {})

\* run_step_Scanning putting the cursor back at the start of the enumeration.
run_step_Scanning_rewind(cs, listing, sync) ==
    IF listing # <<>>
      THEN invoke_open_init(cs, Head(listing), sync, <<>>,
                            StateOpeningFile(Head(listing),
                               UuidSourceScan(ListingOf(cs, BOOTABLE_COMPONENT_TYPE))))
      ELSE StepError("BIOS: no bootable medium", <<>>, {})

\* run_step_Scanning keeping the cursor where it was before listing.next().
run_step_Scanning_stuck(cs, listing, sync) ==
    IF listing # <<>>
      THEN invoke_open_init(cs, Head(listing), sync, <<>>,
                            StateOpeningFile(Head(listing), UuidSourceScan(listing)))
      ELSE StepError("BIOS: no bootable medium", <<>>, {})

run_step_Scanning(cs, listing, sync) ==
    IF listing # <<>>
      THEN invoke_open_init(cs, Head(listing), sync, <<>>,
                            StateOpeningFile(Head(listing), UuidSourceScan(Tail(listing))))
      ELSE StepError("BIOS: no bootable medium", <<>>, {})

\* OpenFailedNext going back to read the EEPROM's answer again.
OpenFailedReread(source) ==
    IF source.kind = "Eeprom" THEN StateReadingBootDeviceUuid
    ELSE StateScanning(source.listing)

\* OpenFailedNext starting the scan over after any failed open.
OpenFailedRestart(source) == StateStartScan

\* Lines 488-494: the state after an open call that failed with -12.
OpenFailedNext(source) ==
    IF source.kind = "Eeprom" THEN StateStartScan ELSE StateScanning(source.listing)

run_step_OpeningFile(cs, info, res, sync) ==
    LET evs == <<invoke_end(res.rc)>>
        bad == StepError("BIOS: filesystem.open bad", evs, {})
    IN  IF res.rc >= 0
          THEN LET h1 == cbor_decode_header(res.bytes)
               IN  IF ~h1.ok THEN StepErr(evs, {})
                   ELSE IF IsArrayOfOne(h1)
                     THEN LET h2 == cbor_decode_header(h1.rest)
                          IN  IF ~h2.ok THEN StepErr(evs, {})
                              ELSE IF h2.major = "Tag" /\ h2.count = U64(39)
                                THEN LET h3 == cbor_decode_header(h2.rest)
                                     IN  IF ~h3.ok THEN StepErr(evs, {})
                                         ELSE IF h3.major = "UnsignedInteger"
                                           THEN LET descriptor == AsU32(h3.count)
                                                IN  invoke_read(cs, info.uuid, descriptor, sync,
                                                        evs, <<>>, {descriptor},
                                                        StateReadingFile(descriptor, info.uuid))
                                           ELSE bad
                                ELSE bad
                     ELSE bad
        ELSE IF res.rc = OtherError
          THEN StepOk("RunNext", OpenFailedNext(info.source), evs, <<>>, {})
        ELSE bad

run_step_ReadingFile(cs, info, res, sync, add_ok) ==
    LET evs == <<invoke_end(res.rc)>>
        io  == StepError("BIOS: I/O error reading /init.wasm", evs, {})
    IN  IF res.rc < 0 THEN internal_error(evs, {})
        ELSE LET h1 == cbor_decode_header(res.bytes)
             IN  IF ~h1.ok THEN StepErr(evs, {info.descriptor})
                 ELSE IF IsArrayOfOne(h1)
                   THEN LET h2 == cbor_decode_header(h1.rest)
                        IN  IF ~h2.ok THEN StepErr(evs, {info.descriptor})
                            ELSE IF h2.major = "Bytes" /\ BELe(h2.count, U64(Len(h2.rest)))
                              THEN IF ~add_ok THEN StepErr(evs, {info.descriptor})
                                   ELSE invoke_read(cs, info.uuid, info.descriptor, sync, evs,
                                            <<ChunkOf(h2.rest, h2.count)>>, {},
                                            StateReadingFile(info.descriptor, info.uuid))
                            ELSE IF h2.major = "Special" /\ h2.count = U64(22)
                              THEN StepExecute(evs, {info.descriptor})
                            ELSE io
                   ELSE io

(***************************************************************************)
(* What the host returns from invoke_end.  A result is the return code rc  *)
(* and the bytes written, with the host's own description of it: its class *)
(* and, for a well-formed result, the value that was encoded.              *)
(***************************************************************************)
\* A CBOR header for a count below 256, as the host's encoder writes it.
EncodeHeader(major, n) ==
    IF n < 24 THEN <<major * 32 + n>> ELSE <<major * 32 + 24, n>>

Result(class, value, bytes) ==
    [class |-> class, value |-> value, rc |-> Len(bytes), bytes |-> bytes]
Failure(rc) == [class |-> "error", value |-> <<>>, rc |-> rc, bytes |-> <<>>]

\* The error codes of a failed call: the one OpeningFile recovers from and
\* two others.
ErrorCodes == {OtherError, -1, -13}

\* Results whose bytes are no well-formed CBOR data item at all.
Undecodable ==
    { <<>>,                \* nothing: the first header is missing
      <<4 * 32 + 24>>,     \* an array header whose count byte is missing
      <<4 * 32 + 28>>,     \* count selector 28
      <<4 * 32 + 1>>,      \* a 1-element array whose element is missing
      <<4 * 32 + 1, 2 * 32 + 29>> }  \* an element with count selector 29

\* Results that are not a 1-element array.
NotArrayOfOne ==
    { <<4 * 32 + 0>>,                       \* []
      <<4 * 32 + 2, 7 * 32 + 22, 3 * 32>>,  \* [null, ""]
      <<5 * 32 + 1, 0, 0>>,                 \* {0: 0}
      <<7 * 32 + 22>> }                     \* null

\* The data an EEPROM can hold: the address of each component slot and of
\* one slot that is never occupied, and data of other lengths.
EepromData ==
    {Address(k) : k \in 1..(MaxComps + 1)} \cup
    {<<>>, [i \in 1..15 |-> 1], [i \in 1..17 |-> 1]}

GetDataResults ==
    {Result("bytes", d, <<4 * 32 + 1>> \o EncodeHeader(2, Len(d)) \o d) : d \in EepromData}
    \cup {Result("bytes", Address(1), <<4 * 32 + 24, 1, 2 * 32 + 24, 16>> \o Address(1))}
    \cup {Result("malformed", <<>>, b) : b \in Undecodable \cup NotArrayOfOne}
    \cup {Result("malformed", <<>>, b) :
            b \in { <<4 * 32 + 1, 3 * 32 + 1, 65>>,      \* ["A"]
                    <<4 * 32 + 1, 7 * 32 + 22>>,         \* [null]
                    <<4 * 32 + 1, 2 * 32 + 2, 1>>,       \* 2 bytes announced, 1 present
                    <<4 * 32 + 1, 2 * 32 + 1, 1, 2>> }}  \* 1 byte announced, 2 present
    \cup {Failure(rc) : rc \in ErrorCodes}

\* The descriptors a successful open returns, as u64 values with the CBOR
\* encodings the host gives them.
Handles ==
    { [value |-> U64(5), bytes |-> <<5>>],
      [value |-> <<0, 0, 0, 1, 0, 0, 0, 5>>, bytes |-> <<27, 0, 0, 0, 1, 0, 0, 0, 5>>] }

OpenResults ==
    {Result("handle", h.value, <<4 * 32 + 1, 6 * 32 + 24, 39>> \o h.bytes) : h \in Handles}
    \cup {Result("malformed", <<>>, b) : b \in Undecodable \cup NotArrayOfOne}
    \cup {Result("malformed", <<>>, b) :
            b \in { <<4 * 32 + 1, 6 * 32 + 24, 40, 5>>,        \* [40(5)]
                    <<4 * 32 + 1, 6 * 32 + 24, 39>>,           \* [39(] the tagged item is missing
                    <<4 * 32 + 1, 6 * 32 + 24, 39, 1 * 32>>,   \* [39(-1)]
                    <<4 * 32 + 1, 6 * 32 + 24, 39, 24>>,       \* [39(] the integer's byte is missing
                    <<4 * 32 + 1, 5>> }}                       \* [5]
    \cup {Failure(rc) : rc \in ErrorCodes}

\* The data chunks a read returns.
ChunkData == {<<>>, <<2, 3>>}

ReadResults ==
    {Result("chunk", d, <<4 * 32 + 1>> \o EncodeHeader(2, Len(d)) \o d) : d \in ChunkData}
    \cup {Result("chunk", <<4>>, <<4 * 32 + 1, 2 * 32 + 1, 4, 0>>)}   \* a chunk and a stray byte
    \cup {Result("eof", <<>>, <<4 * 32 + 1, 7 * 32 + 22>>)}
    \cup {Result("malformed", <<>>, b) : b \in Undecodable \cup NotArrayOfOne}
    \cup {Result("malformed", <<>>, b) :
            b \in { <<4 * 32 + 1, 2 * 32 + 2, 1>>,      \* 2 bytes announced, 1 present
                    <<4 * 32 + 1, 3 * 32 + 1, 65>>,     \* ["A"]
                    <<4 * 32 + 1, 7 * 32 + 23>>,        \* [undefined]
                    <<4 * 32 + 1, 7 * 32 + 20>> }}      \* [false]
    \cup {Failure(rc) : rc \in ErrorCodes}

NoResult == [class |-> "none", value |-> <<>>, rc |-> 0, bytes |-> <<>>]

(***************************************************************************)
(* The loop of run: one iteration takes STATE, leaving the placeholder     *)
(* Init, runs run_step, and stores the next state if there is one.         *)
(***************************************************************************)
\* The host's queue of calls after the events of a step.
RECURSIVE Queue(_, _)
Queue(q, events) ==
    IF events = <<>> THEN q
    ELSE LET e == Head(events)
         IN  IF e.op = "invoke"
               THEN Queue(IF e.rc >= 0
                            THEN Append(q, [address |-> e.address, method |-> e.method,
                                            args |-> e.args, rc |-> e.rc])
                            ELSE q,
                          Tail(events))
             ELSE IF e.op = "invoke_end"
               THEN Queue(IF q = <<>> THEN q ELSE Tail(q), Tail(events))
             ELSE Queue(q, Tail(events))

\* The calls whose results the events of a step collected.
RECURSIVE Collected(_, _)
Collected(q, events) ==
    IF events = <<>> THEN <<>>
    ELSE LET e == Head(events)
         IN  IF e.op = "invoke_end" /\ q # <<>>
               THEN <<Head(q)>> \o Collected(Tail(q), Tail(events))
               ELSE Collected(Queue(q, <<e>>), Tail(events))

\* The events as the trace keeps them: which call was invoked, leaving out how
\* it completed, and whether a collected call had failed.
Logged(events) ==
    [i \in DOMAIN events |->
        IF events[i].op = "invoke"
          THEN [op |-> "invoke", address |-> events[i].address,
                method |-> events[i].method, args |-> events[i].args]
          ELSE [op |-> events[i].op, failed |-> events[i].rc < 0]]

RECURSIVE Concat(_)
Concat(slices) == IF slices = <<>> THEN <<>> ELSE Head(slices) \o Concat(Tail(slices))

\* One iteration of the loop of run, given what run_step did: `o` is the value
\* run_step returned.
run(outcome, res) ==
    \E o \in {outcome} :
      /\ State' = IF o.kind = "Ok" THEN o.next ELSE StateInit
      /\ LISTER' = "Some"
      /\ pc' = CASE o.kind = "Ok" /\ o.result = "RunNext" -> "run"
                 [] o.kind = "Ok" /\ o.result = "Return" -> "host"
                 [] o.kind = "Execute" -> "executed"
                 [] OTHER -> "error"
      /\ message' = CASE o.kind = "Err" -> "BIOS: internal error"
                      [] o.kind = "Error" -> o.msg
                      [] OTHER -> message
      /\ outstanding' = Queue(outstanding, o.events)
      /\ image' = image \o Concat(o.add)
      /\ descriptors' = (descriptors \cup o.acquired) \ o.dropped
      /\ trace' = trace \o Logged(o.events)
      /\ step' = [from |-> State, input |-> res, kind |-> o.kind, result |-> o.result,
                  events |-> o.events, add |-> o.add,
                  collected |-> Collected(outstanding, o.events),
                  first |-> fresh]
      /\ fresh' = FALSE
      /\ UNCHANGED <<comps, slice, header>>

NoStep == [from |-> StateInit, input |-> NoResult, kind |-> "none", result |-> "none",
           events |-> <<>>, add |-> <<>>, collected |-> <<>>, first |-> FALSE]

\* The host enters run: at power-on, and again after run has returned.
CallRun ==
    /\ pc = "host"
    /\ pc' = "run"
    /\ fresh' = TRUE
    /\ step' = NoStep
    /\ UNCHANGED <<State, LISTER, message, comps, outstanding, image, descriptors,
                   file, trace, slice, header>>

StepInit ==
    /\ pc = "run" /\ State.tag = "Init"
    /\ \E sync \in BOOLEAN : run(run_step_Init(comps, sync), NoResult)
    /\ UNCHANGED file

StepReadingBootDeviceUuid ==
    /\ pc = "run" /\ State.tag = "ReadingBootDeviceUuid"
    /\ \E res \in GetDataResults, sync \in BOOLEAN :
          run(run_step_ReadingBootDeviceUuid(comps, res, sync), res)
    /\ UNCHANGED file

StepStartScan ==
    /\ pc = "run" /\ State.tag = "StartScan"
    /\ run(run_step_StartScan(comps), NoResult)
    /\ UNCHANGED file

StepScanning ==
    /\ pc = "run" /\ State.tag = "Scanning"
    /\ \E sync \in BOOLEAN : run(run_step_Scanning(comps, State.listing, sync), NoResult)
    /\ UNCHANGED file

StepOpeningFile ==
    /\ pc = "run" /\ State.tag = "OpeningFile"
    /\ \E res \in OpenResults, sync \in BOOLEAN :
          run(run_step_OpeningFile(comps, State, res, sync), res)
    /\ UNCHANGED file

StepReadingFile ==
    /\ pc = "run" /\ State.tag = "ReadingFile"
    /\ \E res \in ReadResults, sync \in BOOLEAN, add_ok \in BOOLEAN :
          /\ res.class = "chunk" => Len(file) < MaxChunks
          /\ res.class # "chunk" => add_ok
          /\ run(run_step_ReadingFile(comps, State, res, sync, add_ok), res)
          /\ file' = IF res.class = "chunk" THEN Append(file, res.value) ELSE file

NoHeader == [ok |-> FALSE, err |-> "none"]

\* The components attached at power-on: up to MaxComps of them, the k-th at
\* Address(k), each of any type.
Configurations ==
    UNION { [1..n -> ComponentTypes] : n \in 0..MaxComps }

Init ==
    /\ State = StateInit
    /\ LISTER = "None"
    /\ pc = "host"
    /\ message = ""
    /\ \E types \in Configurations :
          comps = [k \in DOMAIN types |-> [address |-> Address(k), type |-> types[k]]]
    /\ outstanding = <<>>
    /\ image = <<>>
    /\ descriptors = {}
    /\ fresh = FALSE
    /\ file = <<>>
    /\ trace = <<>>
    /\ step = NoStep
    /\ slice = <<>>
    /\ header = NoHeader

Next ==
    \/ CallRun
    \/ StepInit
    \/ StepReadingBootDeviceUuid
    \/ StepStartScan
    \/ StepScanning
    \/ StepOpeningFile
    \/ StepReadingFile

Spec == Init /\ [][Next]_vars

\* The same program where the host calls run again whenever run has returned
\* (the asynchronous call it waited for completes), and where run, once
\* entered, executes its loop (lines 553-569) until a step returns or diverges.
LiveSpec ==
    /\ Init /\ [][Next]_vars
    /\ WF_vars(CallRun)
    /\ WF_vars(StepInit \/ StepReadingBootDeviceUuid \/ StepStartScan
                 \/ StepScanning \/ StepOpeningFile \/ StepReadingFile)

(***************************************************************************)
(* The header decoder on its own: a slice is chosen and decoded once.      *)
(***************************************************************************)
\* What follows the first byte: the prefixes of three byte patterns, one of
\* distinct bytes, one of the largest byte and one with only the top bit set.
Tails ==
    { [i \in 1..n |-> i] : n \in 0..MaxTail } \cup
    { [i \in 1..n |-> 255] : n \in 0..MaxTail } \cup
    { [i \in 1..n |-> IF i = 1 THEN 128 ELSE 0] : n \in 0..MaxTail }

\* The slices: the empty one, and every first byte followed by every tail.
Slices == {<<>>} \cup { <<b>> \o t : b \in 0..255, t \in Tails }

DecodeInit ==
    /\ slice \in Slices
    /\ header = NoHeader
    /\ State = StateInit
    /\ LISTER = "None"
    /\ pc = "host"
    /\ message = ""
    /\ comps = <<>>
    /\ outstanding = <<>>
    /\ image = <<>>
    /\ descriptors = {}
    /\ fresh = FALSE
    /\ file = <<>>
    /\ trace = <<>>
    /\ step = NoStep

\* cbor_decode_header(slice) is called and returns.
Decode ==
    /\ header = NoHeader
    /\ header' = cbor_decode_header(slice)
    /\ UNCHANGED <<State, LISTER, pc, message, comps, outstanding, image, descriptors,
                   fresh, file, trace, step, slice>>

DecodeNext == Decode

DecodeSpec == DecodeInit /\ [][DecodeNext]_vars

(***************************************************************************)
(* Properties.                                                             *)
(***************************************************************************)
\* The method calls a step invoked, and the results it collected.
Invoked(events) == SelectSeq(events, LAMBDA e : e.op = "invoke")
Ended(events) == SelectSeq(events, LAMBDA e : e.op = "invoke_end")

\* The step that led to the current state was the arm `tag` of run_step.
Stepped(tag) == step.kind # "none" /\ step.from.tag = tag

\* C1: at most one method call is outstanding in every reachable state, and
\* no execution of run_step, whatever the state, invokes more than one.
C1_OneOutstandingCall ==
    /\ Len(outstanding) <= 1
    /\ Len(Invoked(step.events)) <= 1

\* A read call was issued by a step that first collected the previous read.
C1_Witness ==
    /\ Stepped("ReadingFile")
    /\ Len(Ended(step.events)) = 1
    /\ Len(Invoked(step.events)) = 1
    /\ Len(outstanding) = 1

\* C2: invocations and collections alternate, starting with an invocation:
\* every invoke_end finds exactly one call to collect, every invocation finds
\* none outstanding, and execution never ends with a call left uncollected.
C2_InvokeEndAlternate ==
    /\ \A i \in DOMAIN trace :
          trace[i].op = IF i % 2 = 1 THEN "invoke" ELSE "invoke_end"
    /\ Len(step.collected) = Len(Ended(step.events))
    /\ Len(outstanding) = Len(trace) % 2
    /\ pc \in {"error", "executed"} => outstanding = <<>>

\* Three calls were invoked and each was collected.
C2_Witness == Len(trace) = 6 /\ pc = "executed"

\* C3: run goes on to the next step while steps report RunNext; a step whose
\* call did not complete at once (invoke returned 0) makes run return with the
\* call still uncollected, and that call is collected by the first step of a
\* later entry into run; a call that completed at once is collected in the
\* same entry into run, by the step after the one that issued it.
C3_ReturnIffAsync ==
    /\ (step.kind = "Ok" /\ step.result = "RunNext") => pc = "run"
    /\ \A i \in DOMAIN step.events :
          step.events[i].op = "invoke" =>
             /\ step.events[i].rc = 0 =>
                   /\ pc = "host"
                   /\ Len(outstanding) = 1
                   /\ outstanding[1].rc = 0
                   /\ outstanding[1].method = step.events[i].method
             /\ step.events[i].rc > 0 => pc = "run"
    /\ \A i \in DOMAIN step.collected :
          /\ step.collected[i].rc = 0 => step.first
          /\ step.collected[i].rc > 0 => ~step.first

\* A step collected a call that had not completed at once and issued one that
\* did, and run went on.
C3_Witness ==
    /\ Stepped("OpeningFile")
    /\ Len(step.collected) = 1 /\ step.collected[1].rc = 0 /\ step.first
    /\ Len(outstanding) = 1 /\ outstanding[1].rc = 1
    /\ pc = "run"

\* C4: while reading, the image is the concatenation of the chunks returned so
\* far, in order; execute is reached exactly by the step that collected the
\* EOF value, the image is then the concatenation of all the chunks, and
\* nothing runs after it, so that execute is called once.
C4_ImageIsConcatenation ==
    /\ pc # "error" => image = Concat(file)
    /\ pc = "executed" <=> (Stepped("ReadingFile") /\ step.input.class = "eof")
    /\ pc = "executed" =>
          /\ step.add = <<>>
          /\ Invoked(step.events) = <<>>
          /\ ~ENABLED Next

\* The hand-off after two different chunks, the second with a stray byte
\* after it in the result.
C4_Witness ==
    /\ pc = "executed"
    /\ file = << <<2, 3>>, <<4>> >>
    /\ image = <<2, 3, 4>>

\* C5: in OpeningFile, a collection that fails with -12 issues no call and
\* continues at once, to StartScan if the address came from the EEPROM and to
\* Scanning with the cursor as it was if it came from a scan; a collection that
\* fails with any other code is fatal and no next state is stored.
C5_OpenFailure ==
    (Stepped("OpeningFile") /\ step.input.rc < 0) =>
        /\ Invoked(step.events) = <<>>
        /\ step.input.rc = -12 =>
              /\ pc = "run"
              /\ step.result = "RunNext"
              /\ step.from.source.kind = "Eeprom" => State = [tag |-> "StartScan"]
              /\ step.from.source.kind = "Scan" =>
                    State = [tag |-> "Scanning", listing |-> step.from.source.listing]
        /\ step.input.rc # -12 =>
              /\ pc = "error"
              /\ step.kind \in {"Err", "Error"}
              /\ State = StateInit

\* An open on a scanned device failed with -12 and the scan resumes with a
\* device still to come.
C5_Witness ==
    /\ Stepped("OpeningFile")
    /\ step.input.rc = -12
    /\ step.from.source.kind = "Scan"
    /\ State.tag = "Scanning"
    /\ State.listing # <<>>

\* C6: once an open call against an address has failed, no later open call
\* is issued against that address, also when the address was the boot
\* device named by the EEPROM and a scan follows.
C6_NoOpenAfterFailedOpen ==
    \A i \in DOMAIN trace : \A j \in DOMAIN trace :
        ( /\ i < j
          /\ i + 1 \in DOMAIN trace
          /\ trace[i].op = "invoke" /\ trace[i].method = "open"
          /\ trace[i + 1].op = "invoke_end" /\ trace[i + 1].failed
          /\ trace[j].op = "invoke" /\ trace[j].method = "open" )
        => trace[j].address # trace[i].address

\* The component at the address is attached and of the type.
HasType(address, type) ==
    \E k \in DOMAIN comps : comps[k].address = address /\ comps[k].type = type

\* C7: in ReadingBootDeviceUuid, a result that is a 1-element array holding
\* a byte string of exactly 16 bytes, the address of an attached component of
\* type "filesystem", makes the step issue exactly one call, "open" with the
\* boot filename on that address, and store OpeningFile with that address and
\* the source Eeprom.
C7_BootDeviceOpened ==
    ( /\ Stepped("ReadingBootDeviceUuid")
      /\ step.input.class = "bytes"
      /\ Len(step.input.value) = 16
      /\ HasType(step.input.value, "filesystem") )
    => /\ Len(Invoked(step.events)) = 1
       /\ Invoked(step.events)[1].method = "open"
       /\ Invoked(step.events)[1].address = step.input.value
       /\ Len(outstanding) = 1
       /\ outstanding[1].address = step.input.value
       /\ State = [tag |-> "OpeningFile", uuid |-> step.input.value,
                   source |-> [kind |-> "Eeprom"]]

\* The EEPROM named the second component, a filesystem, and the open call on
\* it did not complete at once.
C7_Witness ==
    /\ Stepped("ReadingBootDeviceUuid")
    /\ step.input.value = Address(2)
    /\ HasType(Address(2), "filesystem")
    /\ State.tag = "OpeningFile"
    /\ pc = "host"

\* C8: in ReadingBootDeviceUuid, a well-formed result whose byte string is not
\* 16 bytes long, or names no attached component, or one whose type is not
\* "filesystem", makes the step issue no call, report RunNext and store
\* StartScan; the StartScan step issues no call either and stores Scanning
\* with a listing of exactly the attached filesystems.
C8_FallBackToScan ==
    /\ ( /\ Stepped("ReadingBootDeviceUuid")
         /\ step.input.class = "bytes"
         /\ ~(Len(step.input.value) = 16 /\ HasType(step.input.value, "filesystem")) )
       => /\ step.events = <<invoke_end(step.input.rc)>>
          /\ step.result = "RunNext"
          /\ pc = "run"
          /\ State = [tag |-> "StartScan"]
    /\ Stepped("StartScan")
       => /\ step.events = <<>>
          /\ pc = "run"
          /\ State.tag = "Scanning"
          /\ {State.listing[i] : i \in DOMAIN State.listing} =
                {comps[k].address : k \in {n \in DOMAIN comps : comps[n].type = "filesystem"}}
          /\ Len(State.listing) =
                Cardinality({n \in DOMAIN comps : comps[n].type = "filesystem"})

\* The EEPROM named an attached component that is not a filesystem.
C8_Witness ==
    /\ Stepped("ReadingBootDeviceUuid")
    /\ step.input.class = "bytes"
    /\ HasType(step.input.value, "gpu")
    /\ State.tag = "StartScan"

\* C9: in Scanning, an exhausted cursor is fatal with "BIOS: no bootable
\* medium", no call is issued and nothing happens afterwards; a cursor that
\* yields a device makes the step issue exactly one call, "open" on that
\* device, and store OpeningFile with that device and the advanced cursor.
C9_ScanningStep ==
    Stepped("Scanning") =>
        /\ step.from.listing = <<>> =>
              /\ pc = "error"
              /\ message = "BIOS: no bootable medium"
              /\ step.events = <<>>
              /\ State = StateInit
              /\ ~ENABLED Next
        /\ step.from.listing # <<>> =>
              /\ Len(step.events) = 1
              /\ step.events[1].op = "invoke"
              /\ step.events[1].method = "open"
              /\ step.events[1].address = step.from.listing[1]
              /\ State = [tag |-> "OpeningFile", uuid |-> step.from.listing[1],
                          source |-> [kind |-> "Scan",
                                      listing |-> Tail(step.from.listing)]]

\* The scan ran out of devices after every open had failed.
C9_Witness ==
    /\ Stepped("Scanning")
    /\ step.from.listing = <<>>
    /\ Len(trace) >= 6
    /\ pc = "error"

\* C10: a result that cannot be decoded or has the wrong shape, collected in
\* ReadingBootDeviceUuid, OpeningFile or ReadingFile, is fatal: no state is
\* stored, nothing is appended to the image, no call is issued in the step and
\* nothing happens afterwards.
C10_MalformedIsFatal ==
    (step.kind # "none" /\ step.input.class = "malformed") =>
        /\ step.from.tag \in {"ReadingBootDeviceUuid", "OpeningFile", "ReadingFile"}
        /\ pc = "error"
        /\ message # ""
        /\ step.kind \in {"Err", "Error"}
        /\ State = StateInit
        /\ step.add = <<>>
        /\ image = Concat(file)
        /\ Invoked(step.events) = <<>>
        /\ ~ENABLED Next

\* A read returned a 2-element array after data had been appended.
C10_Witness ==
    /\ Stepped("ReadingFile")
    /\ step.input.bytes = <<4 * 32 + 2, 7 * 32 + 22, 3 * 32>>
    /\ image # <<>>
    /\ pc = "error"

\* The positions in comps of the attached EEPROMs.
Eeproms == {k \in DOMAIN comps : comps[k].type = "eeprom"}

\* C11: in Init, with no EEPROM attached the step is fatal with "BIOS: no
\* EEPROM" and issues no call; otherwise it issues exactly one call, getData
\* without arguments, to the first EEPROM of the listing, stores
\* ReadingBootDeviceUuid, and run goes on exactly if the call completed at
\* once; no call is ever addressed to a later EEPROM.
C11_InitStep ==
    /\ Stepped("Init") =>
          /\ Eeproms = {} =>
                /\ pc = "error"
                /\ message = "BIOS: no EEPROM"
                /\ step.events = <<>>
                /\ trace = <<>>
          /\ Eeproms # {} =>
                /\ Len(step.events) = 1
                /\ step.events[1].op = "invoke"
                /\ step.events[1].method = "getData"
                /\ step.events[1].args = <<>>
                /\ \A k \in Eeproms : step.events[1].address = comps[k].address => 
                      \A n \in Eeproms : k <= n
                /\ \E k \in Eeproms : step.events[1].address = comps[k].address
                /\ State = [tag |-> "ReadingBootDeviceUuid"]
                /\ pc = "run" <=> step.events[1].rc > 0
                /\ pc = "host" <=> step.events[1].rc = 0
    /\ \A i \in DOMAIN trace : \A k \in Eeproms :
          (trace[i].op = "invoke" /\ trace[i].address = comps[k].address)
             => \A n \in Eeproms : k <= n

\* Two EEPROMs are attached, the first of them behind another component, and
\* the call to it did not complete at once.
C11_Witness ==
    /\ Stepped("Init")
    /\ Eeproms = {2, 3}
    /\ Len(outstanding) = 1 /\ outstanding[1].address = Address(2)
    /\ pc = "host"

\* C12: no execution ends, by the hand-off or by a fatal error, while the
\* program owns a descriptor it acquired in OpeningFile and has not released.
C12_NoDescriptorLeftOpen ==
    pc \in {"error", "executed"} => descriptors = {}

\* cbor_decode_header has been called on slice and has returned header.
Decoded == header # NoHeader

\* The count selector and the major-type selector of the first byte.
Selector == slice[1] % 32
MajorSelector == slice[1] \div 32

\* C13: for a first byte with count selector at most 23, of any major-type
\* selector, the decoder succeeds, the count is the selector, the rest is the
\* slice without its first byte, and the selectors 0..7 give UnsignedInteger,
\* NegativeInteger, Bytes, String, Array, Map, Tag, Special; Float is returned
\* only for major-type selector 7 with count selector 25, 26 or 27.
C13_LiteralCount ==
    (Decoded /\ slice # <<>>) =>
        /\ Selector <= 23 =>
              /\ header.ok
              /\ header.count = <<0, 0, 0, 0, 0, 0, 0, Selector>>
              /\ header.rest = Tail(slice)
              /\ header.major =
                    <<"UnsignedInteger", "NegativeInteger", "Bytes", "String",
                      "Array", "Map", "Tag", "Special">>[MajorSelector + 1]
        /\ (header.ok /\ header.major = "Float") =>
              MajorSelector = 7 /\ Selector \in {25, 26, 27}

\* The special value 23 followed by two bytes has been decoded.
C13_Witness ==
    /\ Decoded
    /\ slice = <<7 * 32 + 23, 1, 2>>
    /\ header.ok /\ header.major = "Special" /\ header.rest = <<1, 2>>

\* C14: for the count selectors 24, 25, 26, 27 the decoder reads the next
\* 1, 2, 4, 8 bytes as a big-endian unsigned count and returns the slice that
\* starts right after them; with fewer bytes after the first it fails with
\* CborDecode.
C14_WideCount ==
    (Decoded /\ slice # <<>> /\ Selector \in 24..27) =>
        LET n == 2 ^ (Selector - 24)
        IN  /\ Len(slice) - 1 >= n =>
                  /\ header.ok
                  /\ header.count =
                        [i \in 1..8 |-> IF i <= 8 - n THEN 0 ELSE slice[1 + i - (8 - n)]]
                  /\ header.rest = [i \in 1..(Len(slice) - 1 - n) |-> slice[i + 1 + n]]
            /\ Len(slice) - 1 < n =>
                  /\ ~header.ok
                  /\ header.err = "CborDecode"

\* An 8-byte count of eight different bytes, with one byte after it.
C14_Witness ==
    /\ Decoded
    /\ slice = <<27, 1, 2, 3, 4, 5, 6, 7, 8, 9>>
    /\ header.ok
    /\ header.count = <<1, 2, 3, 4, 5, 6, 7, 8>>
    /\ header.rest = <<9>>

\* C15: the decoder fails with BufferTooShort exactly on the empty slice, and
\* fails with CborDecode on every slice whose first byte has a count selector
\* from 28 to 31, whatever the major type and whatever follows.
C15_DecodeFailures ==
    Decoded =>
        /\ (~header.ok /\ header.err = "BufferTooShort") <=> slice = <<>>
        /\ (slice # <<>> /\ Selector \in 28..31) =>
              /\ ~header.ok
              /\ header.err = "CborDecode"

\* A map header with count selector 31 and bytes after it was rejected.
C15_Witness ==
    /\ Decoded
    /\ slice = <<5 * 32 + 31, 1, 2, 3>>
    /\ ~header.ok

\* The positions in the trace of the read calls and of the open calls.
Reads == {i \in DOMAIN trace : trace[i].op = "invoke" /\ trace[i].method = "read"}
Opens == {i \in DOMAIN trace : trace[i].op = "invoke" /\ trace[i].method = "open"}

\* The buffer is an array of `n` elements, tag 39 around an unsigned integer
\* written in 4 bytes, then the chunk size 16384 written in 4 bytes, and
\* nothing else.
ReadArgsShape(args, n) ==
    LET h1 == cbor_decode_header(args)
        h2 == cbor_decode_header(h1.rest)
        h3 == cbor_decode_header(h2.rest)
        h4 == cbor_decode_header(h3.rest)
    IN  /\ h1.ok /\ h1.major = "Array" /\ h1.count = <<0, 0, 0, 0, 0, 0, 0, n>>
        /\ h2.ok /\ h2.major = "Tag" /\ h2.count = <<0, 0, 0, 0, 0, 0, 0, 39>>
        /\ h3.ok /\ h3.major = "UnsignedInteger" /\ Len(h2.rest) - Len(h3.rest) = 5
        /\ h4.ok /\ h4.major = "UnsignedInteger" /\ Len(h3.rest) - Len(h4.rest) = 5
        /\ h4.count = <<0, 0, 0, 0, 0, 0, 64, 0>>
        /\ h4.rest = <<>>

\* The handle written in the arguments of a read call, as a u64.
HandleIn(args) ==
    cbor_decode_header(cbor_decode_header(cbor_decode_header(args).rest).rest).count

\* C16, as claimed: the arguments of every read call are a 1-element array,
\* so that the decoder returns (Array, 1) for the first header.
C16_ReadArgsOneElement ==
    \A i \in Reads : ReadArgsShape(trace[i].args, 1)

\* C16, amended: the arguments of every read call are a 2-element array, tag
\* 39 around the raw value of the descriptor the program holds and then the
\* chunk size, each a 4-byte big-endian unsigned integer, so that the decoder
\* returns (Array, 2) for the first header.
C16_ReadArgsTwoElements ==
    /\ \A i \in Reads : ReadArgsShape(trace[i].args, 2)
    /\ State.tag = "ReadingFile" =>
          /\ Len(outstanding) = 1
          /\ outstanding[1].method = "read"
          /\ HandleIn(outstanding[1].args) = <<0, 0, 0, 0>> \o State.descriptor

\* A second read is outstanding on descriptor 5.
C16_Witness ==
    /\ Stepped("ReadingFile")
    /\ State.tag = "ReadingFile"
    /\ State.descriptor = <<0, 0, 0, 5>>
    /\ Len(outstanding) = 1
    /\ outstanding[1].args = <<130, 216, 39, 26, 0, 0, 0, 5, 26, 0, 0, 64, 0>>

\* C17: the arguments of every open call are a 1-element array holding one
\* text string, the boot filename "/init.wasm", with nothing after it, and
\* they are the same for every device.
C17_OpenArguments ==
    /\ \A i \in Opens :
          LET h1 == cbor_decode_header(trace[i].args)
              h2 == cbor_decode_header(h1.rest)
          IN  /\ h1.ok /\ h1.major = "Array" /\ h1.count = <<0, 0, 0, 0, 0, 0, 0, 1>>
              /\ h2.ok /\ h2.major = "String" /\ h2.count = <<0, 0, 0, 0, 0, 0, 0, 10>>
              /\ h2.rest = <<47, 105, 110, 105, 116, 46, 119, 97, 115, 109>>
    /\ \A i \in Opens : \A j \in Opens : trace[i].args = trace[j].args

\* Open calls have been issued to two different devices.
C17_Witness ==
    \E i \in Opens : \E j \in Opens : trace[i].address # trace[j].address

\* C18: every read call goes to the device of the last open call and carries
\* the same arguments, handle included; no open call follows a read call; a
\* ReadingFile step that stays in ReadingFile leaves the state as it was; and
\* the program never owns more than one descriptor.
C18_OneReadSequence ==
    /\ \A i \in Reads : \A j \in Reads :
          trace[i].address = trace[j].address /\ trace[i].args = trace[j].args
    /\ \A i \in Reads : \A j \in Opens : j < i
    /\ \A i \in Reads : \E j \in Opens :
          /\ \A k \in Opens : k <= j
          /\ trace[i].address = trace[j].address
    /\ (Stepped("ReadingFile") /\ State.tag = "ReadingFile") => State = step.from
    /\ State.tag = "ReadingFile" =>
          /\ descriptors = {State.descriptor}
          /\ \A i \in Reads : trace[i].address = State.uuid
    /\ Cardinality(descriptors) <= 1

\* A second read was issued after the first open had failed and the second
\* had returned a handle.
C18_Witness ==
    /\ Stepped("ReadingFile")
    /\ State.tag = "ReadingFile"
    /\ Cardinality(Reads) = 2
    /\ Cardinality(Opens) = 2
    /\ \E i \in Opens : \E j \in Opens : trace[i].address # trace[j].address

\* The open result [39(n)] was collected and a read was issued.
HandleReceived ==
    /\ Stepped("OpeningFile")
    /\ step.input.class = "handle"
    /\ State.tag = "ReadingFile"

\* C19, as claimed: for every n from 0 to 2^64-1 returned as [39(n)], the
\* handle stored in ReadingFile and written in the first read call is n.
C19_HandleIsCount ==
    HandleReceived =>
        /\ <<0, 0, 0, 0>> \o State.descriptor = step.input.value
        /\ HandleIn(outstanding[1].args) = step.input.value

\* C19, amended: the handle stored in ReadingFile and written in the first
\* read call is n modulo 2^32, the low four bytes of n, hence n itself for
\* every n below 2^32.
C19_HandleIsLowWord ==
    HandleReceived =>
        /\ State.descriptor = [i \in 1..4 |-> step.input.value[i + 4]]
        /\ Len(outstanding) = 1
        /\ HandleIn(outstanding[1].args) = <<0, 0, 0, 0>> \o State.descriptor
        /\ (\A i \in 1..4 : step.input.value[i] = 0) =>
              HandleIn(outstanding[1].args) = step.input.value

\* The open returned 2^32 + 5 and the program reads from descriptor 5.
C19_Witness ==
    /\ HandleReceived
    /\ step.input.value = <<0, 0, 0, 1, 0, 0, 0, 5>>
    /\ State.descriptor = <<0, 0, 0, 5>>

\* C20: when run has returned to the host, the stored state is the one the
\* last step produced, one of ReadingBootDeviceUuid, OpeningFile and
\* ReadingFile, with exactly one call outstanding; no step produces Init, and
\* the Init step, with its getData call, runs once in a boot.
C20_StateAtReturn ==
    /\ (pc = "host" /\ LISTER = "Some") =>
          /\ State.tag \in {"ReadingBootDeviceUuid", "OpeningFile", "ReadingFile"}
          /\ Len(outstanding) = 1
    /\ step.kind = "Ok" =>
          /\ State.tag # "Init"
          /\ step.result = "Return" <=> pc = "host"
    /\ (pc \in {"host", "run"} /\ LISTER = "Some") => State.tag # "Init"
    /\ \A i \in DOMAIN trace :
          (trace[i].op = "invoke" /\ trace[i].method = "getData") => i = 1

\* run has returned while a read is outstanding.
C20_Witness ==
    /\ pc = "host"
    /\ State.tag = "ReadingFile"
    /\ Len(outstanding) = 1
    /\ outstanding[1].rc = 0

\* The filesystem devices a scan enumerates, in the order of the enumeration.
FileSystems == ListingOf(comps, BOOTABLE_COMPONENT_TYPE)

\* A scan is under way: the state holds the cursor of an enumeration.
InScan ==
    \/ State.tag = "Scanning"
    \/ State.tag = "OpeningFile" /\ State.source.kind = "Scan"

\* What the cursor has still to yield.
Cursor == IF State.tag = "Scanning" THEN State.listing ELSE State.source.listing

\* The open calls made to one address.
OpensAt(address) == {i \in Opens : trace[i].address = address}

\* The execution has ended: the image was handed over, or the boot was aborted.
Halted == pc \in {"executed", "error"}

\* The cursor is at a position of the enumeration, every device before it has
\* been opened at most once by the scan and every device after it not at all
\* by the scan; one more open call may have been made before the scan, to the
\* boot device named by the EEPROM.
ScanAdvances ==
    /\ \A i \in Opens : \E k \in DOMAIN FileSystems : trace[i].address = FileSystems[k]
    /\ \A k \in DOMAIN FileSystems : Cardinality(OpensAt(FileSystems[k])) <= 2
    /\ Cardinality(Opens) <= 1 + Len(FileSystems)
    /\ InScan =>
          LET done == Len(FileSystems) - Len(Cursor)
          IN  /\ done >= 0
              /\ Cursor = [k \in 1..Len(Cursor) |-> FileSystems[done + k]]
              /\ Cardinality(Opens) <= 1 + done
              /\ \A k \in DOMAIN FileSystems :
                    k > done => Cardinality(OpensAt(FileSystems[k])) <= 1
    /\ (Stepped("Scanning") /\ step.kind = "Ok") =>
          /\ InScan
          /\ Cursor = Tail(step.from.listing)
    /\ (Stepped("OpeningFile") /\ step.from.source.kind = "Scan" /\ InScan) =>
          Cursor = step.from.source.listing

\* C21: when the host calls run again after every return, every execution
\* reaches the hand-off or a fatal abort; the scan cursor only advances, a scan
\* opens each enumerated filesystem at most once, and there are at most 1 plus
\* the number of enumerated filesystems open calls in all.
C21_Terminates ==
    /\ <>Halted
    /\ []ScanAdvances

\* A boot aborted for want of a bootable medium after the boot device named
\* by the EEPROM and then every one of two or more filesystems had been opened.
C21_Witness ==
    /\ pc = "error"
    /\ message = "BIOS: no bootable medium"
    /\ Len(FileSystems) >= 2
    /\ Cardinality(Opens) = 1 + Len(FileSystems)
====
